---- MODULE Spec2Model ----
(***************************************************************************)
(* State-machine model of the QTrader example library:                     *)
(*   - library/indicators/template.py  (MyCustomIndicator,                 *)
(*     MyCustomMultiValueIndicator),                                       *)
(*   - library/strategies/buy_and_hold.py, sma_crossover.py,               *)
(*     weekly_monday_friday.py,                                            *)
(*   - library/adapters/ohlcv_csv.py  (OHLCVCSVAdapter).                   *)
(* One run drives one instance of one class; `instance` names the class.   *)
(* Numbers are exact: a mean is a normalised fraction <<n, d>>, a band is  *)
(* base + coef * sqrt(radicand).                                           *)
(***************************************************************************)
EXTENDS Integers, Sequences, FiniteSets, TLC

VARIABLES
    instance,       \* the class of the object under run
    params,         \* indicator: [period, multiplier] or [period, num_std]
    prices,         \* indicator: self._prices
    current_value,  \* indicator: self._current_value (None or a value)
    raised,         \* exception raised by the last call ("" when none)
    ret,            \* value returned by the last indicator call
    fed,            \* closes passed to update() since construction / reset()
    outs,           \* what each of those update() calls returned
    restarted,      \* reset() has been called on an instance that had been fed
    config,         \* strategy: self.config
    positions,      \* strategy: self._positions (a missing key reads as the default)
    bought,         \* BuyAndHoldStrategy: self._bought
    traded_this_week, \* WeeklyMondayFriday: self._traded_this_week
    bars,           \* Context: the bars cached per symbol, oldest first
    clock,          \* host: timestamp of the last bar delivered per symbol
    call,           \* the last handler call and how far it went
    cross,          \* SMACrossover: the windows and averages the last call computed
    signals,        \* what the last call passed to context.emit_signal
    emitted,        \* per symbol, every intention emitted in the run, oldest first
    marked,         \* WeeklyMondayFriday: every (symbol, week key) line 173 stored
    settings,       \* OHLCVCSVAdapter: which config keys were given, and the file system
    file,           \* the CSV file: its header and its rows, in file order
    reading,        \* the generator read_bars returned: its range and its position
    yielded         \* the bars that generator has yielded, oldest first

indicator_vars == <<params, prices, current_value, ret, fed, outs, restarted>>

\* what a strategy owns or shows, the record of the last call apart
strategy_state == <<config, positions, bought, traded_this_week, bars, clock, cross,
                    signals, emitted, marked>>

strategy_vars == <<strategy_state, call>>

adapter_vars == <<settings, file, reading, yielded>>

vars == <<instance, raised, indicator_vars, strategy_vars, adapter_vars>>

-----------------------------------------------------------------------------
(* Bounds of the model *)

MaxBars == 3
MaxPeriod == 3
MaxMultiplier == 2
MaxHistory == 5
MaxRunBars == 3
MaxDay == 7
MaxEmitted == 2
MaxRows == 3

Closes == {0, 1}

SMACloses == {1, 2}

-----------------------------------------------------------------------------
(* Python values *)

\* None is the empty tuple, a present value v is <<v>>
None == <<>>

Some(v) == <<v>>

IsNone(x) == x = <<>>

\* s[-k:] of a Python list
PySuffix(s, k) ==
    IF k <= 0
    THEN (IF -k >= Len(s) THEN <<>> ELSE SubSeq(s, 1 - k, Len(s)))
    ELSE (IF k >= Len(s) THEN s ELSE SubSeq(s, Len(s) - k + 1, Len(s)))

\* s[:-k] of a Python list, k >= 1
PyDropLast(s, k) == IF k >= Len(s) THEN <<>> ELSE SubSeq(s, 1, Len(s) - k)

RECURSIVE Sum(_)
Sum(s) == IF s = <<>> THEN 0 ELSE s[1] + Sum(Tail(s))

RECURSIVE SeqsUpTo(_, _)
SeqsUpTo(S, n) ==
    IF n = 0 THEN {<<>>}
    ELSE LET shorter == SeqsUpTo(S, n - 1)
         IN  shorter \cup {Append(s, x) : s \in {t \in shorter : Len(t) = n - 1}, x \in S}

Abs(x) == IF x < 0 THEN -x ELSE x

RECURSIVE GCD(_, _)
GCD(a, b) == IF b = 0 THEN a ELSE GCD(b, a % b)

\* the number n / d, d # 0, in lowest terms with a positive denominator
Frac(n, d) ==
    LET g == GCD(Abs(n), Abs(d))
        s == IF d < 0 THEN -1 ELSE 1
    IN  <<(s * n) \div g, (s * d) \div g>>

FracAdd(a, b) == Frac(a[1] * b[2] + b[1] * a[2], a[2] * b[2])

FracLess(a, b) == a[1] * b[2] < b[1] * a[2]

FracLeq(a, b) == a[1] * b[2] <= b[1] * a[2]

IsSquare(n) == \E r \in 0..n : r * r = n

ISqrt(n) == CHOOSE r \in 0..n : r * r = n

\* base + coef * sqrt(radicand); a rational square root is folded into base, so
\* that two bands are equal as numbers exactly when their records are equal
Band(base, coef, radicand) ==
    IF IsSquare(radicand[1]) /\ IsSquare(radicand[2])
    THEN [base |-> FracAdd(base, Frac(coef * ISqrt(radicand[1]), ISqrt(radicand[2]))),
          coef |-> 0, radicand |-> <<0, 1>>]
    ELSE [base |-> base, coef |-> coef, radicand |-> radicand]

-----------------------------------------------------------------------------
(* library/indicators/template.py *)

IndicatorClasses == {"MyCustomIndicator", "MyCustomMultiValueIndicator"}

\* sum(window) / len(window) * self.multiplier
SingleValue(window, multiplier) == Frac(Sum(window) * multiplier, Len(window))

\* the dict {"upper", "middle", "lower"} of the multi-value indicator
MultiValue(window, num_std) ==
    LET n == Len(window)
        S == Sum(window)
        middle == Frac(S, n)
        \* sum((p - middle) ** 2 for p in window) / len(window)
        variance == Frac(Sum([i \in 1..n |-> (n * window[i] - S) * (n * window[i] - S)]),
                         n * n * n)
    IN  [upper  |-> Band(middle, num_std, variance),
         middle |-> Band(middle, 0, <<0, 1>>),
         lower  |-> Band(middle, -num_std, variance)]

IndicatorValue(window) ==
    IF instance = "MyCustomIndicator"
    THEN SingleValue(window, params.multiplier)
    ELSE MultiValue(window, params.num_std)

\* __init__ with the single-value period check in both classes
CtorRaisesPeriodOne(cls, p) ==
    IF cls = "MyCustomIndicator"
    THEN p.period < 1 \/ p.multiplier <= 0
    ELSE p.period < 1 \/ p.num_std <= 0

\* __init__: the ValueError checks
CtorRaises(cls, p) ==
    IF cls = "MyCustomIndicator"
    THEN p.period < 1 \/ p.multiplier <= 0
    ELSE p.period < 2 \/ p.num_std <= 0

\* window = prices[i - self.period + 1 : i + 1], i counted from 1 here
CalculateWindow(closes, i) == SubSeq(closes, i - params.period + 1, i)

\* calculate with the warm-up test `i < self.period` (one entry too many)
calculate_long_warmup(closes) ==
    [i \in 1..Len(closes) |->
        IF i - 1 < params.period
        THEN None
        ELSE Some(IndicatorValue(CalculateWindow(closes, i)))]

\* calculate(bars): the list of results
calculate(closes) ==
    [i \in 1..Len(closes) |->
        IF i - 1 < params.period - 1
        THEN None
        ELSE Some(IndicatorValue(CalculateWindow(closes, i)))]

\* window = self._prices[-self.period :]
UpdateWindowShort(p) == PySuffix(p, params.period - 1)

UpdateWindow(p) == PySuffix(p, params.period)

\* update(bar)
Update(close) ==
    /\ instance \in IndicatorClasses
    /\ raised = ""
    /\ Len(fed) < MaxBars
    /\ prices' = Append(prices, close)
    /\ current_value' = IF Len(prices') < params.period
                        THEN None
                        ELSE Some(IndicatorValue(UpdateWindow(prices')))
    /\ ret' = current_value'
    /\ fed' = Append(fed, close)
    /\ outs' = Append(outs, ret')
    /\ call' = [op |-> "update", symbol |-> "", outcome |-> "done"]
    /\ UNCHANGED <<instance, adapter_vars, params, raised, restarted, strategy_state>>

\* what reset() found: nothing stored, closes only, or closes and a value
ResetOutcome ==
    IF prices = <<>> THEN "empty"
    ELSE IF IsNone(current_value) THEN "cleared"
    ELSE "cleared_value"

\* reset() without `self._current_value = None`
ResetKeepsValue ==
    /\ instance \in IndicatorClasses
    /\ raised = ""
    /\ prices' = <<>>
    /\ ret' = None
    /\ fed' = <<>>
    /\ outs' = <<>>
    /\ restarted' = (restarted \/ prices # <<>>)
    /\ call' = [op |-> "reset", symbol |-> "", outcome |-> ResetOutcome]
    /\ UNCHANGED <<instance, adapter_vars, params, current_value, raised, strategy_state>>

\* reset() without `self._prices.clear()`
ResetKeepsPrices ==
    /\ instance \in IndicatorClasses
    /\ raised = ""
    /\ current_value' = None
    /\ ret' = None
    /\ fed' = <<>>
    /\ outs' = <<>>
    /\ restarted' = (restarted \/ prices # <<>>)
    /\ call' = [op |-> "reset", symbol |-> "", outcome |-> ResetOutcome]
    /\ UNCHANGED <<instance, adapter_vars, params, prices, raised, strategy_state>>

\* reset()
Reset ==
    /\ instance \in IndicatorClasses
    /\ raised = ""
    /\ prices' = <<>>
    /\ current_value' = None
    /\ ret' = None
    /\ fed' = <<>>
    /\ outs' = <<>>
    /\ restarted' = (restarted \/ prices # <<>>)
    /\ call' = [op |-> "reset", symbol |-> "", outcome |-> ResetOutcome]
    /\ UNCHANGED <<instance, adapter_vars, params, raised, strategy_state>>

\* value: the cached result of the last update()
value == current_value

\* is_ready with a strict comparison
is_ready_strict == Len(prices) > params.period

\* is_ready
is_ready == Len(prices) >= params.period

\* calculate(bars) that works on self._prices instead of a local list
CalculateStoresPrices(closes) ==
    /\ instance \in IndicatorClasses
    /\ raised = ""
    /\ ret' = calculate(closes)
    /\ prices' = closes
    /\ call' = [op |-> "calculate", symbol |-> "", outcome |-> "done"]
    /\ UNCHANGED <<instance, adapter_vars, params, current_value, raised, fed, outs,
                   restarted, strategy_state>>

\* calculate(bars) on the instance in its current state
Calculate(closes) ==
    /\ instance \in IndicatorClasses
    /\ raised = ""
    /\ ret' = calculate(closes)
    /\ call' = [op |-> "calculate", symbol |-> "", outcome |-> "done"]
    /\ UNCHANGED <<instance, adapter_vars, params, prices, current_value, raised, fed, outs,
                   restarted, strategy_state>>

-----------------------------------------------------------------------------
(* library/strategies: what the three strategies share *)

StrategyClasses == {"BuyAndHoldStrategy", "SMACrossover", "WeeklyMondayFriday"}

SymbolList == <<"AAA", "BBB">>

Symbols == {SymbolList[i] : i \in DOMAIN SymbolList}

\* a per-symbol count summed over the symbols
Total(count) == Sum([i \in DOMAIN SymbolList |-> count[SymbolList[i]]])

\* event.side of a fill: "buy" or "sell"
Sides == {"buy", "sell"}

\* event.filled_quantity of a fill
Quantities == {1, 2}

\* context.emit_signal(symbol=..., intention=...) at bar timestamp t
Signal(symbol, intention) == [symbol |-> symbol, intention |-> intention]

\* the emitted intentions appended to the per-symbol output of the run
Emit(sigs, t) ==
    [s \in Symbols |->
        emitted[s] \o [i \in 1..Len(SelectSeq(sigs, LAMBDA x : x.symbol = s)) |->
                        [intention |-> SelectSeq(sigs, LAMBDA x : x.symbol = s)[i].intention,
                         t |-> t]]]

\* context.get_price(symbol): the close of the bar being processed, or None
get_price(close, price_missing) == IF price_missing THEN None ELSE Some(close)

-----------------------------------------------------------------------------
(* library/strategies/buy_and_hold.py *)

\* on_bar without the `self._bought = True` of line 85
BuyAndHoldOnBarForgetful(symbol) ==
    IF bought
    THEN [signals |-> <<>>, bought |-> bought]
    ELSE [signals |-> <<Signal(symbol, "OPEN_LONG")>>, bought |-> bought]

\* on_bar(event, context): what it emits and the new self._bought
BuyAndHoldOnBar(symbol) ==
    IF bought
    THEN [signals |-> <<>>, bought |-> bought]
    ELSE [signals |-> <<Signal(symbol, "OPEN_LONG")>>, bought |-> TRUE]

BuyAndHold_on_bar(symbol) ==
    /\ instance = "BuyAndHoldStrategy"
    /\ clock' = [clock EXCEPT ![symbol] = @ + 1]
    /\ LET r == BuyAndHoldOnBar(symbol)
       IN  /\ signals' = r.signals
           /\ bought' = r.bought
           /\ emitted' = Emit(r.signals, clock'[symbol])
    /\ call' = [op |-> "on_bar", symbol |-> symbol, outcome |-> "done"]
    /\ raised' = ""
    /\ UNCHANGED <<instance, adapter_vars, indicator_vars, config, positions, traded_this_week,
                   bars, cross, marked>>

\* the class defines no on_position_filled: a fill reaches the base class only
BuyAndHold_on_position_filled(symbol, side, quantity) ==
    /\ instance = "BuyAndHoldStrategy"
    /\ call' = [op |-> "on_position_filled", symbol |-> symbol, outcome |-> side]
    /\ signals' = <<>>
    /\ raised' = ""
    /\ UNCHANGED <<instance, adapter_vars, indicator_vars, config, positions, bought,
                   traded_this_week, bars, clock, cross, emitted, marked>>

-----------------------------------------------------------------------------
(* library/strategies/sma_crossover.py *)

\* on_position_filled with the sell branch always opening a short
SMAFillSellAlwaysShort(current_position, side) ==
    IF side = "buy"
    THEN (IF current_position = "short" THEN "None" ELSE "long")
    ELSE IF side = "sell"
    THEN "short"
    ELSE current_position

\* on_position_filled: the new self._positions[symbol]; Python's None is "None"
SMAFill(current_position, side) ==
    IF side = "buy"
    THEN (IF current_position = "short" THEN "None" ELSE "long")
    ELSE IF side = "sell"
    THEN (IF current_position = "long" THEN "None" ELSE "short")
    ELSE current_position

SMA_on_position_filled(symbol, side, quantity) ==
    /\ instance = "SMACrossover"
    /\ positions' = [positions EXCEPT ![symbol] = SMAFill(positions[symbol], side)]
    /\ call' = [op |-> "on_position_filled", symbol |-> symbol, outcome |-> side]
    /\ signals' = <<>>
    /\ cross' = None
    /\ raised' = ""
    /\ UNCHANGED <<instance, adapter_vars, indicator_vars, config, bought, traded_this_week, bars,
                   clock, emitted, marked>>

\* context.get_bars(symbol, n): the last n cached bars, the bar being processed
\* last; with fewer than n cached either what there is or None
get_bars(cached, n, history_absent) ==
    IF Len(cached) < n
    THEN (IF history_absent THEN None ELSE Some(cached))
    ELSE Some(PySuffix(cached, n))

\* bars[:-1] replaced by bars[1:]: the bar being processed enters the windows
current_bars_lookahead(bs) == Tail(bs)

\* current_bars = bars[:-1]
current_bars(bs) == PyDropLast(bs, 1)

\* prev_bars = bars[:-2]
prev_bars(bs) == PyDropLast(bs, 2)

\* the four lists of bars the averages are taken over
SMAWindows(bs) ==
    [current_fast |-> PySuffix(current_bars(bs), config.fast_period),
     current_slow |-> current_bars(bs),
     prev_fast    |-> PySuffix(prev_bars(bs), config.fast_period),
     prev_slow    |-> prev_bars(bs)]

\* sum(prices) / len(prices) over the closes of a list of bars
SMA(window) == Frac(Sum([i \in 1..Len(window) |-> window[i].close]), Len(window))

\* golden_cross with a strict comparison at the previous step
golden_cross_strict(prev_fast_sma, prev_slow_sma, fast_sma, slow_sma) ==
    FracLess(prev_fast_sma, prev_slow_sma) /\ FracLess(slow_sma, fast_sma)

golden_cross(prev_fast_sma, prev_slow_sma, fast_sma, slow_sma) ==
    FracLeq(prev_fast_sma, prev_slow_sma) /\ FracLess(slow_sma, fast_sma)

death_cross(prev_fast_sma, prev_slow_sma, fast_sma, slow_sma) ==
    FracLeq(prev_slow_sma, prev_fast_sma) /\ FracLess(fast_sma, slow_sma)

\* the CrossState of one evaluated bar: windows (as bar indices), averages, events
SMACross(bs) ==
    LET w == SMAWindows(bs)
        f == SMA(w.current_fast)
        s == SMA(w.current_slow)
        pf == SMA(w.prev_fast)
        ps == SMA(w.prev_slow)
    IN  [windows |-> [k \in DOMAIN w |-> [i \in 1..Len(w[k]) |-> w[k][i].t]],
         fast_sma |-> f, slow_sma |-> s, prev_fast_sma |-> pf, prev_slow_sma |-> ps,
         golden_cross |-> golden_cross(pf, ps, f, s),
         death_cross |-> death_cross(pf, ps, f, s)]

\* the docstring's long/short reversal instead of the long-only branches
SMASignalsReversal(symbol, golden, death, current_position) ==
    IF golden
    THEN (IF current_position = "short"
          THEN <<Signal(symbol, "CLOSE_SHORT"), Signal(symbol, "OPEN_LONG")>>
          ELSE IF current_position # "long"
          THEN <<Signal(symbol, "OPEN_LONG")>>
          ELSE <<>>)
    ELSE IF death
    THEN (IF current_position = "long"
          THEN <<Signal(symbol, "CLOSE_LONG"), Signal(symbol, "OPEN_SHORT")>>
          ELSE <<>>)
    ELSE <<>>

\* the golden branch without its `current_position != "long"` test
SMASignalsNoPositionTest(symbol, golden, death, current_position) ==
    IF golden
    THEN <<Signal(symbol, "OPEN_LONG")>>
    ELSE IF death
    THEN (IF current_position = "long" THEN <<Signal(symbol, "CLOSE_LONG")>> ELSE <<>>)
    ELSE <<>>

\* lines 196-236: the emit_signal calls of one decided bar
SMASignals(symbol, golden, death, current_position) ==
    IF golden
    THEN (IF current_position # "long" THEN <<Signal(symbol, "OPEN_LONG")>> ELSE <<>>)
    ELSE IF death
    THEN (IF current_position = "long" THEN <<Signal(symbol, "CLOSE_LONG")>> ELSE <<>>)
    ELSE <<>>

\* on_bar that also books the position it asks for
SMAOnBarPositionsEager(symbol, sigs) ==
    IF sigs = <<>>
    THEN positions
    ELSE [positions EXCEPT ![symbol] =
            IF sigs[1].intention = "OPEN_LONG" THEN "long" ELSE "None"]

\* self._positions after on_bar emitted sigs: on_bar assigns nothing
SMAOnBarPositions(symbol, sigs) == positions

\* on_bar without the `if current_price is None: return` of lines 188-189
SMAOnBarIgnoresPrice(symbol, got, current_price) ==
    IF IsNone(got) \/ Len(got[1]) < config.slow_period + 1
    THEN [outcome |-> "insufficient", raised |-> "", cross |-> None, signals |-> <<>>]
    ELSE LET w == SMAWindows(got[1])
         IN  IF \E k \in DOMAIN w : w[k] = <<>>
             THEN [outcome |-> "raised", raised |-> "ZeroDivisionError",
                   cross |-> None, signals |-> <<>>]
             ELSE LET c == SMACross(got[1])
                  IN  [outcome |-> IF IsNone(current_price) THEN "no_price" ELSE "decided",
                       raised |-> "", cross |-> Some(c),
                       signals |-> SMASignals(symbol, c.golden_cross,
                                              c.death_cross, positions[symbol])]

\* on_bar with the history test `len(bars) < self.config.slow_period`
SMAOnBarShortHistory(symbol, got, current_price) ==
    IF IsNone(got) \/ Len(got[1]) < config.slow_period
    THEN [outcome |-> "insufficient", raised |-> "", cross |-> None, signals |-> <<>>]
    ELSE LET w == SMAWindows(got[1])
         IN  IF \E k \in DOMAIN w : w[k] = <<>>
             THEN [outcome |-> "raised", raised |-> "ZeroDivisionError",
                   cross |-> None, signals |-> <<>>]
             ELSE LET c == SMACross(got[1])
                  IN  IF IsNone(current_price)
                      THEN [outcome |-> "no_price", raised |-> "",
                            cross |-> Some(c), signals |-> <<>>]
                      ELSE [outcome |-> "decided", raised |-> "", cross |-> Some(c),
                            signals |-> SMASignals(symbol, c.golden_cross,
                                                   c.death_cross, positions[symbol])]

\* on_bar(event, context) up to its return or raise:
\* [outcome, raised, cross, signals]
SMAOnBar(symbol, got, current_price) ==
    IF IsNone(got) \/ Len(got[1]) < config.slow_period + 1
    THEN [outcome |-> "insufficient", raised |-> "", cross |-> None, signals |-> <<>>]
    ELSE LET w == SMAWindows(got[1])
         IN  IF \E k \in DOMAIN w : w[k] = <<>>
             THEN [outcome |-> "raised", raised |-> "ZeroDivisionError",
                   cross |-> None, signals |-> <<>>]
             ELSE LET c == SMACross(got[1])
                  IN  IF IsNone(current_price)
                      THEN [outcome |-> "no_price", raised |-> "",
                            cross |-> Some(c), signals |-> <<>>]
                      ELSE [outcome |-> "decided", raised |-> "", cross |-> Some(c),
                            signals |-> SMASignals(symbol, c.golden_cross,
                                                   c.death_cross, positions[symbol])]

SMA_on_bar(symbol, close, price_missing, history_absent) ==
    /\ instance = "SMACrossover"
    /\ bars' = [bars EXCEPT ![symbol] =
                    Append(@, [t |-> Len(@) + 1, close |-> close])]
    /\ clock' = [clock EXCEPT ![symbol] = @ + 1]
    /\ LET r == SMAOnBar(symbol,
                         get_bars(bars'[symbol], config.slow_period + 1, history_absent),
                         get_price(close, price_missing))
       IN  /\ call' = [op |-> "on_bar", symbol |-> symbol, outcome |-> r.outcome]
           /\ raised' = r.raised
           /\ cross' = r.cross
           /\ signals' = r.signals
           /\ emitted' = Emit(r.signals, clock'[symbol])
           /\ positions' = SMAOnBarPositions(symbol, r.signals)
    /\ UNCHANGED <<instance, adapter_vars, indicator_vars, config, bought, traded_this_week, marked>>

-----------------------------------------------------------------------------
(* library/strategies/weekly_monday_friday.py *)

\* timestamp.isocalendar() and timestamp.weekday() of day d, counted from
\* Monday 2024-01-01 (2024 and 2025 have 52 ISO weeks each)
isocalendar(d) == <<2024 + (d \div 364), ((d % 364) \div 7) + 1, (d % 7) + 1>>

\* timestamp.isoweekday() in the place of timestamp.weekday(): Monday is 1
isoweekday(d) == (d % 7) + 1

weekday(d) == d % 7

\* _get_week_key: f"{year}-W{week:02d}", a different string for each (year, week)
get_week_key(d) == <<isocalendar(d)[1], isocalendar(d)[2]>>

\* on_position_filled with `else` in the place of `elif side == "sell"`
WeeklyFillElseCloses(has_position, side) == side = "buy"

\* on_position_filled: the new self._positions[symbol]
WeeklyFill(has_position, side) ==
    IF side = "buy" THEN TRUE
    ELSE IF side = "sell" THEN FALSE
    ELSE has_position

Weekly_on_position_filled(symbol, side, quantity) ==
    /\ instance = "WeeklyMondayFriday"
    /\ positions' = [positions EXCEPT ![symbol] = WeeklyFill(positions[symbol], side)]
    /\ call' = [op |-> "on_position_filled", symbol |-> symbol, outcome |-> side]
    /\ signals' = <<>>
    /\ raised' = ""
    /\ UNCHANGED <<instance, adapter_vars, indicator_vars, config, bought, traded_this_week, bars,
                   clock, cross, emitted, marked>>

\* the Monday branch without its `last_trade_week != week_key` test
WeeklySignalsNoGate(symbol, d, has_position, last_trade_week) ==
    IF weekday(d) = 0
    THEN (IF ~has_position THEN <<Signal(symbol, "OPEN_LONG")>> ELSE <<>>)
    ELSE IF weekday(d) = 4
    THEN (IF has_position THEN <<Signal(symbol, "CLOSE_LONG")>> ELSE <<>>)
    ELSE <<>>

\* lines 155-191: the emit_signal calls of one bar with a price
WeeklySignals(symbol, d, has_position, last_trade_week) ==
    IF weekday(d) = 0
    THEN (IF ~has_position /\ last_trade_week # Some(get_week_key(d))
          THEN <<Signal(symbol, "OPEN_LONG")>>
          ELSE <<>>)
    ELSE IF weekday(d) = 4
    THEN (IF has_position THEN <<Signal(symbol, "CLOSE_LONG")>> ELSE <<>>)
    ELSE <<>>

\* self._positions after on_bar emitted sigs: on_bar assigns nothing
WeeklyOnBarPositions(symbol, sigs) == positions

\* the calendar gate as on_bar uses it: the query `last_trade_week != week_key`
\* of line 158, negated
has_acted(record, symbol, week_key) == record[symbol] = Some(week_key)

\* line 173 with one record for the whole universe instead of one per symbol
mark_acted_shared(record, symbol, week_key) == [s \in Symbols |-> Some(week_key)]

\* line 173: self._traded_this_week[symbol] = week_key
mark_acted(record, symbol, week_key) == [record EXCEPT ![symbol] = Some(week_key)]

Weekly_on_bar(symbol, d, price_missing) ==
    /\ instance = "WeeklyMondayFriday"
    /\ d >= clock[symbol]
    /\ clock' = [clock EXCEPT ![symbol] = d]
    /\ LET sigs == IF price_missing
                   THEN <<>>
                   ELSE WeeklySignals(symbol, d, positions[symbol],
                                      traded_this_week[symbol])
       IN  /\ signals' = sigs
           /\ emitted' = Emit(sigs, d)
           /\ positions' = WeeklyOnBarPositions(symbol, sigs)
           /\ traded_this_week' =
                IF sigs # <<>> /\ sigs[1].intention = "OPEN_LONG"
                THEN mark_acted(traded_this_week, symbol, get_week_key(d))
                ELSE traded_this_week
           /\ marked' =
                IF sigs # <<>> /\ sigs[1].intention = "OPEN_LONG"
                THEN marked \cup {<<symbol, get_week_key(d)>>}
                ELSE marked
           /\ call' = [op |-> "on_bar", symbol |-> symbol,
                       outcome |-> IF price_missing THEN "no_price" ELSE "decided"]
    /\ raised' = ""
    /\ UNCHANGED <<instance, adapter_vars, indicator_vars, config, bought, bars, cross>>

-----------------------------------------------------------------------------
(* library/adapters/ohlcv_csv.py *)

AdapterClasses == {"OHLCVCSVAdapter"}

\* days of the calendar the rows and the ranges are drawn from
Dates == {1, 2, 3}

Columns == {"Date", "Open", "High", "Low", "Close", "Volume"}

PriceColumns == {"Open", "High", "Low", "Close"}

\* what csv.DictReader hands over for one line.  date_text says whether the
\* Date cell parses with %m/%d/%Y ("ok", then date is the day) or not ("TEXT").
\* price stands for the four price cells read in the order of lines 171-174:
\* "ok" when Decimal() takes them all, else the first cell it does not take,
\* "TEXT" a string that is no number, "NONE" the None DictReader puts for a
\* cell the line is too short to have.  volume is the Volume cell likewise.
Row(date_text, date, price, volume) ==
    [date_text |-> date_text, date |-> date, price |-> price, volume |-> volume]

Rows ==
    {Row("ok", d, "ok", "ok") : d \in Dates}
        \cup {Row("TEXT", 1, "ok", "ok"),
              Row("ok", 2, "TEXT", "ok"),
              Row("ok", 2, "ok", "TEXT"),
              Row("ok", 2, "NONE", "NONE")}

\* the header line: every column, or one column short
Headers == {Columns, Columns \ {"Volume"}, Columns \ {"Date"}}

\* __init__ without the test of lines 137-139
AdapterCtorTrustsPath(s) ==
    IF ~(s.root_path /\ s.path_template) THEN "ValueError"
    ELSE ""

\* __init__, lines 105-110 and 137-139: the exception it raises, "" when none
AdapterCtorRaises(s) ==
    IF ~(s.root_path /\ s.path_template) THEN "ValueError"
    ELSE IF ~s.file_exists THEN "FileNotFoundError"
    ELSE ""

\* the body of the for loop, lines 160-185, on one row: "yield", "skip"
\* (continue, by the range filter or by the except clause), or the exception
\* that leaves the loop.  KeyError and ValueError are caught; Decimal() of a
\* string that is no number raises decimal.InvalidOperation, an
\* ArithmeticError, and Decimal(None), float(None) raise TypeError.
ParseRow(header, row, start_dt, end_dt) ==
    IF "Date" \notin header THEN "skip"
    ELSE IF row.date_text # "ok" THEN "skip"
    ELSE IF row.date < start_dt \/ row.date > end_dt THEN "skip"
    ELSE IF ~(PriceColumns \subseteq header) THEN "skip"
    ELSE IF row.price = "NONE" THEN "TypeError"
    ELSE IF row.price = "TEXT" THEN "InvalidOperation"
    ELSE IF "Volume" \notin header THEN "skip"
    ELSE IF row.volume = "NONE" THEN "TypeError"
    ELSE IF row.volume = "TEXT" THEN "skip"
    ELSE "yield"

\* the for loop from row i on, up to the next yield, the end of the file or
\* an exception: what happened and at which row
RECURSIVE ScanRows(_, _, _, _, _)
ScanRows(header, rows, i, start_dt, end_dt) ==
    IF i > Len(rows) THEN [outcome |-> "StopIteration", row |-> i]
    ELSE LET r == ParseRow(header, rows[i], start_dt, end_dt)
         IN  IF r = "skip"
             THEN ScanRows(header, rows, i + 1, start_dt, end_dt)
             ELSE [outcome |-> r, row |-> i]

NoReading == [state |-> "none", start |-> 0, end |-> 0, cursor |-> 0]

\* read_bars(start_date, end_date) on an instance __init__ returned: a
\* generator function, the call runs none of its body and returns a new
\* generator
ReadBars(start_date, end_date) ==
    /\ instance \in AdapterClasses
    /\ AdapterCtorRaises(settings) = ""
    /\ reading' = [state |-> "created", start |-> start_date, end |-> end_date,
                   cursor |-> 1]
    /\ yielded' = <<>>
    /\ raised' = ""
    /\ call' = [op |-> "read_bars", symbol |-> "", outcome |-> "generator"]
    /\ UNCHANGED <<instance, indicator_vars, strategy_state, settings, file>>

\* next() on that generator: lines 153-157 on the first call, then the loop
\* up to the next yield
NextBar ==
    /\ instance \in AdapterClasses
    /\ reading.state \in {"created", "suspended"}
    /\ LET scan == IF settings.file_exists
                   THEN ScanRows(file.header, file.rows, reading.cursor,
                                 reading.start, reading.end)
                   ELSE [outcome |-> "FileNotFoundError", row |-> reading.cursor]
       IN  /\ reading' = [reading EXCEPT
                            !.state = CASE scan.outcome = "yield" -> "suspended"
                                        [] scan.outcome = "StopIteration" -> "finished"
                                        [] OTHER -> "failed",
                            !.cursor = IF scan.outcome = "yield"
                                       THEN scan.row + 1 ELSE scan.row]
           /\ yielded' = IF scan.outcome = "yield"
                         THEN Append(yielded, [row |-> scan.row,
                                               date |-> file.rows[scan.row].date])
                         ELSE yielded
           /\ raised' = IF scan.outcome \in {"yield", "StopIteration"}
                        THEN "" ELSE scan.outcome
           /\ call' = [op |-> "next", symbol |-> "", outcome |-> scan.outcome]
    /\ UNCHANGED <<instance, indicator_vars, strategy_state, settings, file>>

-----------------------------------------------------------------------------
(* Specifications *)

\* the adapter fields of a run that drives an indicator or a strategy
NoAdapter ==
    /\ settings = [root_path |-> FALSE, path_template |-> FALSE, file_exists |-> FALSE]
    /\ file = [header |-> {}, rows |-> <<>>]
    /\ reading = NoReading
    /\ yielded = <<>>

\* the indicator fields of a run that drives a strategy
NoIndicator ==
    /\ params = [period |-> 0]
    /\ prices = <<>>
    /\ current_value = None
    /\ ret = None
    /\ fed = <<>>
    /\ outs = <<>>
    /\ restarted = FALSE

\* the strategy fields of a run that drives an indicator
NoStrategy ==
    /\ config = [name |-> "none"]
    /\ positions = [s \in Symbols |-> "None"]
    /\ bought = FALSE
    /\ traded_this_week = [s \in Symbols |-> None]
    /\ bars = [s \in Symbols |-> <<>>]
    /\ clock = [s \in Symbols |-> 0]
    /\ call = [op |-> "__init__", symbol |-> "", outcome |-> "done"]
    /\ cross = None
    /\ signals = <<>>
    /\ emitted = [s \in Symbols |-> <<>>]
    /\ marked = {}

IndicatorParams(cls) ==
    IF cls = "MyCustomIndicator"
    THEN [period : 0..MaxPeriod, multiplier : 0..MaxMultiplier]
    ELSE [period : 0..MaxPeriod, num_std : 0..MaxMultiplier]

InitIndicator ==
    /\ instance \in IndicatorClasses
    /\ params \in IndicatorParams(instance)
    /\ prices = <<>>
    /\ current_value = None
    /\ raised = IF CtorRaises(instance, params) THEN "ValueError" ELSE ""
    /\ ret = None
    /\ fed = <<>>
    /\ outs = <<>>
    /\ restarted = FALSE
    /\ NoStrategy
    /\ NoAdapter

NextIndicator ==
    \/ \E close \in Closes : Update(close)
    \/ Reset
    \/ \E closes \in SeqsUpTo(Closes, MaxBars) : Calculate(closes)

SpecIndicator == InitIndicator /\ [][NextIndicator]_vars

SMAConfigs == {[fast_period |-> 1, slow_period |-> 2],
               [fast_period |-> 1, slow_period |-> 3]}

\* the configurations a strategy instance is built from
Configs(cls) ==
    IF cls = "SMACrossover"
    THEN SMAConfigs
    ELSE {[name |-> cls]}

\* a strategy instance after __init__, before any bar or fill
InitStrategy ==
    /\ instance \in StrategyClasses
    /\ positions = [s \in Symbols |->
                        IF instance = "WeeklyMondayFriday" THEN FALSE ELSE "None"]
    /\ bought = FALSE
    /\ traded_this_week = [s \in Symbols |-> None]
    /\ bars = [s \in Symbols |-> <<>>]
    /\ clock = [s \in Symbols |-> 0]
    /\ call = [op |-> "__init__", symbol |-> "", outcome |-> "done"]
    /\ cross = None
    /\ signals = <<>>
    /\ emitted = [s \in Symbols |-> <<>>]
    /\ marked = {}
    /\ raised = ""
    /\ NoIndicator
    /\ NoAdapter

Init ==
    /\ instance \in StrategyClasses
    /\ config \in Configs(instance)
    /\ InitStrategy

Next ==
    \/ \E symbol \in Symbols :
        /\ Total(clock) < MaxRunBars
        /\ BuyAndHold_on_bar(symbol)
    \/ \E symbol \in Symbols, side \in Sides, quantity \in Quantities :
        BuyAndHold_on_position_filled(symbol, side, quantity)
    \/ \E symbol \in Symbols, close \in SMACloses, price_missing, history_absent \in BOOLEAN :
        /\ Total(clock) < MaxRunBars
        /\ SMA_on_bar(symbol, close, price_missing, history_absent)
    \/ \E symbol \in Symbols, side \in Sides, quantity \in Quantities :
        SMA_on_position_filled(symbol, side, quantity)
    \/ \E symbol \in Symbols, d \in 0..MaxDay, price_missing \in BOOLEAN :
        /\ Weekly_on_bar(symbol, d, price_missing)
        /\ Total([s \in Symbols |-> Len(emitted'[s])]) <= MaxEmitted
    \/ \E symbol \in Symbols, side \in Sides, quantity \in Quantities :
        Weekly_on_position_filled(symbol, side, quantity)

Spec == Init /\ [][Next]_vars

\* a run of SMACrossover on a universe of one symbol
InitSMA ==
    /\ instance = "SMACrossover"
    /\ config \in SMAConfigs
    /\ InitStrategy

NextSMA ==
    \/ \E close \in SMACloses, price_missing, history_absent \in BOOLEAN :
        /\ Len(bars[SymbolList[1]]) < MaxHistory
        /\ SMA_on_bar(SymbolList[1], close, price_missing, history_absent)
    \/ \E side \in Sides, quantity \in Quantities :
        SMA_on_position_filled(SymbolList[1], side, quantity)

SpecSMA == InitSMA /\ [][NextSMA]_vars

\* SMAConfig(fast_period=..., slow_period=...): the fields are plain ints,
\* the class declares no validator and __init__ checks nothing
SMAConfigRaises(c) == FALSE

\* the periods a configuration file can give, zero included
AnyPeriods == {0, 1, 2}

\* a run of SMACrossover built from any such configuration, one symbol; the
\* run ends at the first exception
InitSMAConfig ==
    /\ instance = "SMACrossover"
    /\ config \in [fast_period : AnyPeriods, slow_period : AnyPeriods]
    /\ InitStrategy
    /\ ~SMAConfigRaises(config)

NextSMAConfig ==
    \/ \E close \in SMACloses, price_missing, history_absent \in BOOLEAN :
        /\ raised = ""
        /\ Len(bars[SymbolList[1]]) < MaxHistory
        /\ SMA_on_bar(SymbolList[1], close, price_missing, history_absent)
    \/ \E side \in Sides, quantity \in Quantities :
        /\ raised = ""
        /\ SMA_on_position_filled(SymbolList[1], side, quantity)

SpecSMAConfig == InitSMAConfig /\ [][NextSMAConfig]_vars

\* scenario B of the specification: fast_period=2, slow_period=3, one symbol,
\* as many bars as the scenario (one more after the scenario itself), closes
\* among those of the scenario, every bar with a price; the execution side
\* confirms the latest emitted intention and sends no other fill
ScenarioB == <<10, 10, 10, 10, 9, 11, 11>>

ScenarioBCloses == {ScenarioB[i] : i \in DOMAIN ScenarioB}

\* event.side as the host may deliver it: "buy", "sell" or anything else
AnySides == Sides \cup {"other"}

\* the side of the fill that confirms an intention
FillSide(intention) ==
    IF intention \in {"OPEN_LONG", "CLOSE_SHORT"} THEN "buy" ELSE "sell"

InitScenarioB ==
    /\ instance = "SMACrossover"
    /\ config = [fast_period |-> 2, slow_period |-> 3]
    /\ InitStrategy

NextScenarioB ==
    \/ \E close \in ScenarioBCloses, history_absent \in BOOLEAN :
        /\ \/ Len(bars[SymbolList[1]]) < Len(ScenarioB)
           \/ [i \in 1..Len(bars[SymbolList[1]]) |-> bars[SymbolList[1]][i].close] = ScenarioB
        /\ SMA_on_bar(SymbolList[1], close, FALSE, history_absent)
    \/ \E quantity \in Quantities :
        /\ emitted[SymbolList[1]] # <<>>
        /\ SMA_on_position_filled(
              SymbolList[1],
              FillSide(emitted[SymbolList[1]][Len(emitted[SymbolList[1]])].intention),
              quantity)

SpecScenarioB == InitScenarioB /\ [][NextScenarioB]_vars

\* scenario C of the specification: each symbol is fed one week of daily bars,
\* Monday 2024-01-08 (day 7) to Friday 2024-01-12 (day 11), every bar with a
\* price; the execution side confirms the latest emitted intention of a
\* symbol, at any time or never, and sends no other fill
ScenarioC == <<7, 8, 9, 10, 11>>

InitScenarioC ==
    /\ instance = "WeeklyMondayFriday"
    /\ config \in Configs(instance)
    /\ InitStrategy

NextScenarioC ==
    \/ \E symbol \in Symbols, i \in DOMAIN ScenarioC :
        /\ clock[symbol] = (IF i = 1 THEN 0 ELSE ScenarioC[i - 1])
        /\ Weekly_on_bar(symbol, ScenarioC[i], FALSE)
    \/ \E symbol \in Symbols, quantity \in Quantities :
        /\ emitted[symbol] # <<>>
        /\ Weekly_on_position_filled(
              symbol, FillSide(emitted[symbol][Len(emitted[symbol])].intention), quantity)

SpecScenarioC == InitScenarioC /\ [][NextScenarioC]_vars

\* a week with holidays: each symbol gets bars on some of the days of the
\* week of Monday 2024-01-08 (days 7 to 13), in date order, at most one a
\* day, each with a price; the execution side confirms the latest emitted
\* intention of a symbol, at any time or never, and sends no other fill
HolidayWeek == {7, 8, 9, 10, 11, 12, 13}

InitHolidayWeek ==
    /\ instance = "WeeklyMondayFriday"
    /\ config \in Configs(instance)
    /\ InitStrategy

NextHolidayWeek ==
    \/ \E symbol \in Symbols, d \in HolidayWeek :
        /\ d > clock[symbol]
        /\ Weekly_on_bar(symbol, d, FALSE)
    \/ \E symbol \in Symbols, quantity \in Quantities :
        /\ emitted[symbol] # <<>>
        /\ Weekly_on_position_filled(
              symbol, FillSide(emitted[symbol][Len(emitted[symbol])].intention), quantity)

SpecHolidayWeek == InitHolidayWeek /\ [][NextHolidayWeek]_vars

\* the host confirms every intention before the instrument's next bar: after
\* a call that emitted, the matching fill and nothing else; after any other
\* call, the next bar and no fill
NextSMAMatched ==
    \/ \E close \in SMACloses, price_missing, history_absent \in BOOLEAN :
        /\ Len(bars[SymbolList[1]]) < MaxHistory
        /\ ~(call.op = "on_bar" /\ signals # <<>>)
        /\ SMA_on_bar(SymbolList[1], close, price_missing, history_absent)
    \/ \E quantity \in Quantities :
        /\ call.op = "on_bar" /\ signals # <<>>
        /\ SMA_on_position_filled(SymbolList[1], FillSide(signals[1].intention), quantity)

SpecSMAMatched == InitSMA /\ [][NextSMAMatched]_vars

InitWeeklyFills ==
    /\ instance = "WeeklyMondayFriday"
    /\ config \in Configs(instance)
    /\ InitStrategy

\* bars in timestamp order per symbol, fills of any side at any moment
NextWeeklyFills ==
    \/ \E symbol \in Symbols, d \in 0..MaxDay, price_missing \in BOOLEAN :
        /\ Weekly_on_bar(symbol, d, price_missing)
        /\ Total([s \in Symbols |-> Len(emitted'[s])]) <= MaxEmitted
    \/ \E symbol \in Symbols, side \in AnySides, quantity \in Quantities :
        Weekly_on_position_filled(symbol, side, quantity)

SpecWeeklyFills == InitWeeklyFills /\ [][NextWeeklyFills]_vars

\* OHLCVCSVAdapter(config, instrument) on a file system that stays as it is
InitAdapter ==
    /\ instance \in AdapterClasses
    /\ settings \in [root_path : BOOLEAN, path_template : BOOLEAN, file_exists : BOOLEAN]
    /\ file \in [header : Headers, rows : SeqsUpTo(Rows, MaxRows)]
    /\ reading = NoReading
    /\ yielded = <<>>
    /\ raised = AdapterCtorRaises(settings)
    /\ NoIndicator
    /\ NoStrategy

NextAdapter ==
    \/ \E start_date, end_date \in Dates : ReadBars(start_date, end_date)
    \/ NextBar

SpecAdapter == InitAdapter /\ [][NextAdapter]_vars

-----------------------------------------------------------------------------
(* Claims *)

\* C1: for every valid period N and every close sequence, at every index
\* i >= N-1 (counted from 0) the batch value calculate(bars)[i] equals what the
\* (i+1)-th update() call returned on an instance fed the same bars one at a
\* time, for the single-value indicator and, component by component, for the
\* multi-value one.
C1_BatchEqualsIncremental ==
    (instance \in IndicatorClasses /\ raised = "") =>
        \A i \in 1..Len(fed) :
            i >= params.period =>
                /\ ~IsNone(outs[i])
                /\ calculate(fed)[i] = outs[i]

C1_Witness ==
    /\ instance = "MyCustomMultiValueIndicator"
    /\ params.period = 3
    /\ Len(fed) = 3
    /\ ~IsNone(outs[3])
    /\ outs[3][1].upper.coef # 0
    /\ calculate(fed)[3] = outs[3]

-----------------------------------------------------------------------------
(* Claims about the strategies *)

\* the symbol, position and closes the last call was about
CallSymbol == call.symbol

ClosesOf(bs) == [i \in 1..Len(bs) |-> bs[i].close]

Intentions(sigs) == {sigs[i].intention : i \in 1..Len(sigs)}

IsSMA == instance = "SMACrossover"

\* the transition table of the claim
C2_Table(position, side) ==
    IF side = "buy"
    THEN (IF position = "short" THEN "None" ELSE "long")
    ELSE (IF position = "long" THEN "None" ELSE "short")

\* the position SMACrossover ends in after fills of these sides, starting Flat
RECURSIVE C2_AfterFills(_)
C2_AfterFills(sides) ==
    IF sides = <<>>
    THEN "None"
    ELSE SMAFill(C2_AfterFills(SubSeq(sides, 1, Len(sides) - 1)), sides[Len(sides)])

\* C2: the position of an instrument starts Flat and every fill moves it by
\* the table Buy: Short -> Flat, Flat or Long -> Long; Sell: Long -> Flat,
\* Flat or Short -> Short, whatever the quantity, and leaves the other
\* instruments alone; Buy,Buy,Sell and Sell,Buy from Flat both end Flat.
C2_FillTransitions ==
    /\ (IsSMA => \A s \in Symbols : positions[s] = "None")
    /\ C2_AfterFills(<<"buy", "buy", "sell">>) = "None"
    /\ C2_AfterFills(<<"sell", "buy">>) = "None"
    /\ [][(IsSMA /\ call'.op = "on_position_filled") =>
            positions' = [positions EXCEPT ![call'.symbol] =
                            C2_Table(positions[call'.symbol], call'.outcome)]]_vars

C2_Witness ==
    /\ IsSMA
    /\ call.op = "on_position_filled"
    /\ call.outcome = "buy"
    /\ positions[CallSymbol] = "None"
    /\ \E s \in Symbols : positions[s] = "long"

\* C3: an on_bar call of SMACrossover or WeeklyMondayFriday, emitting or not,
\* leaves the stored position of every instrument as it was.
C3_OnBarKeepsPositions ==
    [][(instance \in {"SMACrossover", "WeeklyMondayFriday"} /\ call'.op = "on_bar")
            => positions' = positions]_vars

C3_Witness ==
    /\ IsSMA
    /\ call.op = "on_bar"
    /\ signals # <<>>
    /\ positions[CallSymbol] = "None"

\* C4: the step is a golden cross iff previous_fast <= previous_slow and
\* current_fast > current_slow, a death cross iff previous_fast >=
\* previous_slow and current_fast < current_slow; a tie at the current step
\* is never a cross.
C4_CrossClassification ==
    (IsSMA /\ ~IsNone(cross)) =>
        LET c == cross[1]
        IN  /\ c.golden_cross <=>
                (/\ c.prev_fast_sma[1] * c.prev_slow_sma[2] <= c.prev_slow_sma[1] * c.prev_fast_sma[2]
                 /\ c.fast_sma[1] * c.slow_sma[2] > c.slow_sma[1] * c.fast_sma[2])
            /\ c.death_cross <=>
                (/\ c.prev_fast_sma[1] * c.prev_slow_sma[2] >= c.prev_slow_sma[1] * c.prev_fast_sma[2]
                 /\ c.fast_sma[1] * c.slow_sma[2] < c.slow_sma[1] * c.fast_sma[2])
            /\ (c.fast_sma = c.slow_sma => ~c.golden_cross /\ ~c.death_cross)

\* a tie at the previous step followed by a strict separation
C4_Witness ==
    /\ IsSMA
    /\ ~IsNone(cross)
    /\ cross[1].prev_fast_sma = cross[1].prev_slow_sma
    /\ cross[1].golden_cross
    /\ config.slow_period = 3

\* C5: when on_bar decides on bar t, every bar in the four windows has index
\* <= t-1, and the intentions emitted are the same whatever the close of bar t.
C5_NoLookAhead ==
    (IsSMA /\ call.op = "on_bar" /\ ~IsNone(cross)) =>
        LET t == Len(bars[CallSymbol])
            w == cross[1].windows
        IN  /\ \A k \in DOMAIN w : \A i \in 1..Len(w[k]) : w[k][i] <= t - 1
            /\ call.outcome = "decided" =>
                \A c \in SMACloses \cup ScenarioBCloses :
                    LET other == [bars[CallSymbol] EXCEPT ![t] = [t |-> t, close |-> c]]
                    IN  SMAOnBar(CallSymbol,
                                 get_bars(other, config.slow_period + 1, FALSE),
                                 get_price(c, FALSE)).signals = signals

C5_Witness ==
    /\ IsSMA
    /\ call.op = "on_bar"
    /\ call.outcome = "decided"
    /\ signals # <<>>
    /\ Len(bars[CallSymbol]) = config.slow_period + 2

\* C6: at both offsets the fast average is over exactly fast_period closes and
\* the slow average over exactly slow_period closes, the current windows
\* ending at bar t-1 and the previous ones at bar t-2.
C6_WindowSizes ==
    (IsSMA /\ call.op = "on_bar" /\ ~IsNone(cross)) =>
        LET t == Len(bars[CallSymbol])
            w == cross[1].windows
        IN  /\ Len(w.current_fast) = config.fast_period
            /\ Len(w.current_slow) = config.slow_period
            /\ Len(w.prev_fast) = config.fast_period
            /\ Len(w.prev_slow) = config.slow_period
            /\ w.current_fast[Len(w.current_fast)] = t - 1
            /\ w.current_slow[Len(w.current_slow)] = t - 1
            /\ w.prev_fast[Len(w.prev_fast)] = t - 2
            /\ w.prev_slow[Len(w.prev_slow)] = t - 2

\* C7 as stated: fed the closes of scenario B from Flat, the strategy emits
\* exactly one intention, an open-long.
C7_ScenarioB_OneOpenLong ==
    (IsSMA /\ ClosesOf(bars[SymbolList[1]]) = ScenarioB) =>
        /\ Len(emitted[SymbolList[1]]) = 1
        /\ emitted[SymbolList[1]][1].intention = "OPEN_LONG"

\* C7, amended: fed the closes of scenario B from Flat, the strategy emits no
\* intention at any of the seven bars: at no evaluated bar does the 2-bar mean
\* of the bars before it exceed their 3-bar mean, so no upward cross is
\* detected; the cross is detected, and the one open-long emitted, on the bar
\* that follows the seven.
C7_ScenarioB_NoIntention ==
    LET bs == bars[SymbolList[1]]
        n == IF Len(bs) <= Len(ScenarioB) THEN Len(bs) ELSE Len(ScenarioB)
    IN  (/\ IsSMA
         /\ config = [fast_period |-> 2, slow_period |-> 3]
         /\ SubSeq(ClosesOf(bs), 1, n) = SubSeq(ScenarioB, 1, n)) =>
            IF Len(bs) <= Len(ScenarioB)
            THEN /\ emitted[SymbolList[1]] = <<>>
                 /\ signals = <<>>
                 /\ positions[SymbolList[1]] = "None"
                 /\ ~IsNone(cross) =>
                     /\ ~cross[1].golden_cross
                     /\ ~FracLess(cross[1].slow_sma, cross[1].fast_sma)
            ELSE emitted[SymbolList[1]] =
                    <<[intention |-> "OPEN_LONG", t |-> Len(ScenarioB) + 1]>>

C7_Witness ==
    /\ IsSMA
    /\ ClosesOf(bars[SymbolList[1]]) = ScenarioB
    /\ call.op = "on_bar"
    /\ call.outcome = "decided"
    /\ cross[1].fast_sma = cross[1].slow_sma

C10_SingleShot ==
    instance = "BuyAndHoldStrategy" =>
        /\ Total(clock) = 0 => Total([s \in Symbols |-> Len(emitted[s])]) = 0
        /\ Total(clock) > 0 =>
            /\ Total([s \in Symbols |-> Len(emitted[s])]) = 1
            /\ \A s \in Symbols :
                emitted[s] # <<>> => emitted[s][1] = [intention |-> "OPEN_LONG", t |-> 1]
        /\ (call.op = "on_bar" /\ Total(clock) = 1) =>
            signals = <<Signal(CallSymbol, "OPEN_LONG")>>
        /\ (call.op = "on_bar" /\ Total(clock) > 1) => signals = <<>>

\* three bars over both symbols: one open-long, none at the last bar
C10_Witness ==
    /\ instance = "BuyAndHoldStrategy"
    /\ Total(clock) = 3
    /\ \A s \in Symbols : clock[s] > 0
    /\ call.op = "on_bar"
    /\ signals = <<>>
    /\ Total([s \in Symbols |-> Len(emitted[s])]) = 1

-----------------------------------------------------------------------------
(* Claims about WeeklyMondayFriday *)

IsWeekly == instance = "WeeklyMondayFriday"

\* what the claim says of one on_bar step for symbol s at day d: the Monday
\* and Friday rules and the no-op of the other days
C11_Rule(s, d) ==
    LET k == get_week_key(d)
    IN  /\ weekday(d) = 0 =>
            /\ "OPEN_LONG" \in Intentions(signals') <=>
                    (~positions[s] /\ ~has_acted(traded_this_week, s, k))
            /\ "OPEN_LONG" \in Intentions(signals') =>
                    has_acted(traded_this_week', s, k)
            /\ "CLOSE_LONG" \notin Intentions(signals')
        /\ weekday(d) = 4 =>
            /\ "CLOSE_LONG" \in Intentions(signals') <=> positions[s]
            /\ "OPEN_LONG" \notin Intentions(signals')
        /\ weekday(d) \notin {0, 4} =>
            /\ signals' = <<>>
            /\ emitted' = emitted
            /\ positions' = positions
            /\ traded_this_week' = traded_this_week

C12_OpenMonday == [intention |-> "OPEN_LONG", t |-> ScenarioC[1]]

C12_CloseFriday == [intention |-> "CLOSE_LONG", t |-> ScenarioC[5]]

\* C12 as stated: fed the bars of scenario C from Flat, the strategy emits one
\* open-long on Monday, nothing on Tuesday, Wednesday and Thursday, and one
\* close-long on Friday.
C12_ScenarioC_OpenAndClose ==
    IsWeekly =>
        \A s \in Symbols :
            /\ clock[s] = 0 => emitted[s] = <<>>
            /\ clock[s] \in {ScenarioC[i] : i \in 1..4} => emitted[s] = <<C12_OpenMonday>>
            /\ clock[s] = ScenarioC[5] => emitted[s] = <<C12_OpenMonday, C12_CloseFriday>>

\* C12, amended: fed the bars of scenario C from Flat, the strategy emits one
\* open-long on Monday and nothing on Tuesday, Wednesday and Thursday; on
\* Friday it emits the one close-long iff the instrument is positioned when
\* the Friday bar arrives, that is iff the Buy fill confirming the open-long
\* was applied before that bar; without that fill Friday emits nothing.
C12_ScenarioC_CloseIfFilled ==
    /\ [](IsWeekly =>
            \A s \in Symbols :
                /\ clock[s] = 0 => emitted[s] = <<>>
                /\ clock[s] \in {ScenarioC[i] : i \in 1..4} =>
                        emitted[s] = <<C12_OpenMonday>>
                /\ clock[s] = ScenarioC[5] =>
                        emitted[s] \in {<<C12_OpenMonday>>,
                                        <<C12_OpenMonday, C12_CloseFriday>>})
    /\ [][(IsWeekly /\ call'.op = "on_bar" /\ clock'[call'.symbol] = ScenarioC[5]) =>
            (emitted'[call'.symbol] = <<C12_OpenMonday, C12_CloseFriday>>
                <=> positions[call'.symbol])]_vars

\* both symbols got their five bars: one had its open-long confirmed before
\* Friday and closed, the other had no fill and emitted nothing on Friday
C12_Witness ==
    /\ IsWeekly
    /\ \A s \in Symbols : clock[s] = ScenarioC[5]
    /\ call.op = "on_bar"
    /\ emitted[CallSymbol] = <<C12_OpenMonday, C12_CloseFriday>>
    /\ \E s \in Symbols : emitted[s] = <<C12_OpenMonday>> /\ ~positions[s]

-----------------------------------------------------------------------------
(* Claims about the three strategies together *)

\* what one instrument's run consists of: its intentions and its position and
\* calendar state
C14_Own(s) == <<emitted[s], positions[s], traded_this_week[s]>>

C14_OwnNext(s) == <<emitted'[s], positions'[s], traded_this_week'[s]>>

\* C14: the intentions emitted for an instrument and its position and
\* calendar state are what they would be had the other instrument's bars and
\* fills never been delivered: a call for one instrument changes nothing of
\* the other, what it does for its own instrument is decided by that
\* instrument's own state, and the single-shot policy, which alone emits an
\* open-long at an instrument's first bar, does so for each instrument.
C14_InstrumentsIndependent ==
    /\ [](instance = "BuyAndHoldStrategy" =>
            \A s \in Symbols :
                emitted[s] = IF clock[s] = 0
                             THEN <<>>
                             ELSE <<[intention |-> "OPEN_LONG", t |-> 1]>>)
    /\ [][(instance \in StrategyClasses) =>
            (\A s \in Symbols : s # call'.symbol => C14_Own(s) = C14_OwnNext(s))]_vars
    /\ [][(IsSMA /\ call'.op = "on_bar" /\ call'.outcome = "decided") =>
            signals' = SMASignals(call'.symbol, cross'[1].golden_cross,
                                  cross'[1].death_cross, positions[call'.symbol])]_vars
    /\ [][(IsWeekly /\ call'.op = "on_bar" /\ call'.outcome = "decided") =>
            signals' = WeeklySignals(call'.symbol, clock'[call'.symbol],
                                     positions[call'.symbol],
                                     traded_this_week[call'.symbol])]_vars

-----------------------------------------------------------------------------
(* Claims about the indicators *)

IsIndicator == instance \in IndicatorClasses /\ raised = ""

\* the value of a window of closes that are all zero
C15_ZeroValue == IndicatorValue([i \in 1..params.period |-> 0])

\* C15: calculate(bars) returns as many entries as there are bars (none for
\* no bars), entry i (from 0) being None exactly when i < N-1; on a fresh or
\* reset instance the k-th update() returns None exactly when k < N; a ready
\* value that is zero is a value, not None.
C15_WarmUp ==
    IsIndicator =>
        /\ \A closes \in SeqsUpTo(Closes, MaxBars) :
            /\ Len(calculate(closes)) = Len(closes)
            /\ \A i \in 1..Len(closes) :
                    IsNone(calculate(closes)[i]) <=> (i - 1 < params.period - 1)
        /\ Len(outs) = Len(fed)
        /\ \A k \in 1..Len(outs) : IsNone(outs[k]) <=> (k < params.period)
        /\ \A k \in 1..Len(outs) :
                (k >= params.period /\ \A j \in (k - params.period + 1)..k : fed[j] = 0) =>
                    /\ outs[k] = Some(C15_ZeroValue)
                    /\ calculate(fed)[k] = Some(C15_ZeroValue)
                    /\ Some(C15_ZeroValue) # None

\* a reset instance of period 2 fed zeros: None, then the value zero; and
\* calculate just ran on the instance
C15_Witness ==
    /\ IsIndicator
    /\ instance = "MyCustomIndicator"
    /\ restarted
    /\ params.period = 2
    /\ fed = <<0, 0>>
    /\ outs = <<None, Some(<<0, 1>>)>>
    /\ call.op = "calculate"

\* C16: the stored window of closes never holds more than N closes, and once
\* it holds N every further update() keeps it at N, the oldest close dropped
\* as the newest is appended.
C16_WindowBounded ==
    /\ [](IsIndicator => Len(prices) <= params.period)
    /\ [][(IsIndicator /\ call'.op = "update" /\ Len(prices) = params.period) =>
            prices' = Append(Tail(prices), fed'[Len(fed')])]_vars

\* C17: reset() in any reachable state empties the stored closes and sets
\* the cached value to None; period and multiplier / num_std stay as they were.
C17_ResetClears ==
    [][(instance \in IndicatorClasses /\ call'.op = "reset") =>
            /\ prices' = <<>>
            /\ current_value' = None
            /\ params' = params
            /\ instance' = instance]_vars

\* reset() of a multi-value indicator that held closes and a value
C17_Witness ==
    /\ instance = "MyCustomMultiValueIndicator"
    /\ params = [period |-> 2, num_std |-> 2]
    /\ call.op = "reset"
    /\ call.outcome = "cleared_value"
    /\ prices = <<>>
    /\ IsNone(current_value)

\* what a freshly constructed instance with the same parameters returns, call
\* by call, when closes S are fed through update()
C18_FreshOutputs(S) ==
    [k \in 1..Len(S) |->
        IF k < params.period
        THEN None
        ELSE Some(IndicatorValue(UpdateWindow(SubSeq(S, 1, k))))]

\* C18: after reset() the update() calls return, for the closes fed since,
\* exactly what a fresh instance returns for them, whatever was fed before
\* the reset.
C18_IdempotentRestart ==
    IsIndicator => outs = C18_FreshOutputs(fed)

\* an instance that was fed, reset and fed again up to a ready value
C18_Witness ==
    /\ IsIndicator
    /\ restarted
    /\ params.period = 2
    /\ Len(fed) = 3
    /\ ~IsNone(outs[3])
    /\ IsNone(outs[1])
    /\ call.op = "update"

\* C19: construction raises the configuration error, before any bar is
\* processed, exactly when period < 1 (single-value) or period < 2
\* (multi-value), or the multiplier / num_std is not above zero; it succeeds
\* for every other combination.
C19_ConstructionFails ==
    instance \in IndicatorClasses =>
        /\ raised \in {"", "ValueError"}
        /\ raised = "ValueError" <=>
            \/ instance = "MyCustomIndicator" /\ params.period < 1
            \/ instance = "MyCustomIndicator" /\ params.multiplier <= 0
            \/ instance = "MyCustomMultiValueIndicator" /\ params.period < 2
            \/ instance = "MyCustomMultiValueIndicator" /\ params.num_std <= 0
        /\ raised = "ValueError" =>
            /\ call.op = "__init__"
            /\ fed = <<>>
            /\ prices = <<>>
            /\ ~restarted

\* period 1 is refused by the multi-value indicator
C19_Witness ==
    /\ instance = "MyCustomMultiValueIndicator"
    /\ params = [period |-> 1, num_std |-> 1]
    /\ raised = "ValueError"
    /\ call.op = "__init__"

-----------------------------------------------------------------------------
(* Claims about SMACrossover, continued *)

\* C20: an on_bar call for an instrument that has fewer than slow_period + 1
\* bars of history, the bar of the call included, or no history at all, emits
\* nothing, raises nothing, computes no average and changes no state of the
\* strategy.
C20_InsufficientHistory ==
    [][(IsSMA /\ call'.op = "on_bar"
              /\ Len(bars'[call'.symbol]) < config.slow_period + 1) =>
            /\ call'.outcome = "insufficient"
            /\ signals' = <<>>
            /\ raised' = ""
            /\ IsNone(cross')
            /\ emitted' = emitted
            /\ positions' = positions
            /\ config' = config]_vars

\* one bar short of slow_period + 1, after a fill made the instrument Long
C20_Witness ==
    /\ IsSMA
    /\ call.op = "on_bar"
    /\ call.outcome = "insufficient"
    /\ Len(bars[CallSymbol]) = config.slow_period
    /\ positions[CallSymbol] = "long"
    /\ signals = <<>>

-----------------------------------------------------------------------------
(* Claims about missing prices, configuration and the docstrings *)

C22_BadConfigFailsAtConstruction ==
    (IsSMA /\ (config.fast_period <= 0 \/ config.slow_period <= 0)) =>
        /\ raised \notin {"", "ZeroDivisionError"}
        /\ call.op = "__init__"

\* C23: as the module docstring of sma_crossover.py says, a decided bar with a
\* death cross while Long emits CLOSE_LONG and OPEN_SHORT, and one with a
\* golden cross while Short emits CLOSE_SHORT and OPEN_LONG.
C23_DocumentedReversal ==
    (IsSMA /\ call.op = "on_bar" /\ call.outcome = "decided") =>
        /\ (cross[1].death_cross /\ positions[CallSymbol] = "long") =>
                Intentions(signals) = {"CLOSE_LONG", "OPEN_SHORT"}
        /\ (cross[1].golden_cross /\ positions[CallSymbol] = "short") =>
                Intentions(signals) = {"CLOSE_SHORT", "OPEN_LONG"}

\* C24: as the module docstring of weekly_monday_friday.py says, the
\* open-long comes on the first business day of the week, so on the Tuesday
\* bar when the symbol had no Monday bar that week, and no symbol is
\* positioned on a weekend bar.
C24_DocumentedFirstBusinessDay ==
    /\ [][(IsWeekly /\ call'.op = "on_bar" /\ call'.outcome = "decided"
                    /\ clock[call'.symbol] = 0
                    /\ weekday(clock'[call'.symbol]) = 1) =>
            signals' = <<Signal(call'.symbol, "OPEN_LONG")>>]_vars
    /\ []((IsWeekly /\ call.op = "on_bar" /\ weekday(clock[CallSymbol]) \in {5, 6}) =>
            ~positions[CallSymbol])

-----------------------------------------------------------------------------
(* Claims about OHLCVCSVAdapter *)

IsAdapter == instance \in AdapterClasses

\* a row with every column, a date, four prices and a volume that parse
C25_WellFormed(row) ==
    /\ file.header = Columns
    /\ row.date_text = "ok"
    /\ row.price = "ok"
    /\ row.volume = "ok"

\* the well-formed rows of the range among the first n rows, in file order
RECURSIVE C25_Expected(_)
C25_Expected(n) ==
    IF n = 0 THEN <<>>
    ELSE LET row == file.rows[n]
         IN  IF /\ C25_WellFormed(row)
                /\ reading.start <= row.date
                /\ row.date <= reading.end
             THEN Append(C25_Expected(n - 1), n)
             ELSE C25_Expected(n - 1)

C25_YieldedRows == [i \in DOMAIN yielded |-> yielded[i].row]

\* C25: a pass over the file never fails on a malformed row, and once the
\* pass is exhausted the rows it yielded are exactly the well-formed rows of
\* the range, in file order, each once.
C25_MalformedRowsSkipped ==
    IsAdapter =>
        /\ reading.state # "failed"
        /\ reading.state = "finished" =>
               C25_YieldedRows = C25_Expected(Len(file.rows))

\* C26: construction raises ValueError when root_path or path_template is
\* missing and FileNotFoundError when the settings are complete and the file
\* is absent; a generator of read_bars exists only for complete settings and
\* an existing file.
C26_ConstructionFailsImmediately ==
    IsAdapter =>
        /\ ~(settings.root_path /\ settings.path_template) =>
               raised = "ValueError" /\ reading.state = "none"
        /\ (settings.root_path /\ settings.path_template /\ ~settings.file_exists) =>
               raised = "FileNotFoundError" /\ reading.state = "none"
        /\ reading.state # "none" =>
               settings.root_path /\ settings.path_template /\ settings.file_exists

\* complete settings and no file: the constructor has raised FileNotFoundError
C26_Witness ==
    /\ IsAdapter
    /\ settings.root_path /\ settings.path_template /\ ~settings.file_exists
    /\ raised = "FileNotFoundError"
    /\ file.rows # <<>>

\* C27: the bars one pass has yielded are in non-decreasing date order, each
\* inside the range of the pass, and no row was yielded twice.
C27_ChronologicalInRangeOnce ==
    IsAdapter =>
        /\ \A i, j \in DOMAIN yielded : i < j => yielded[i].date <= yielded[j].date
        /\ \A i \in DOMAIN yielded :
               reading.start <= yielded[i].date /\ yielded[i].date <= reading.end
        /\ \A i, j \in DOMAIN yielded : i # j => yielded[i].row # yielded[j].row

-----------------------------------------------------------------------------
(* Claims about the indicators, continued *)

\* C28: a calculate() call leaves the stored window, the cached value and
\* is_ready as they were, and the results of the update() calls are those of
\* the same closes fed without any calculate() call in between.
C28_CalculateStateless ==
    /\ [][(call'.op = "calculate") =>
            /\ prices' = prices
            /\ value' = value
            /\ is_ready' = is_ready
            /\ outs' = outs]_vars
    /\ [](IsIndicator => outs = C18_FreshOutputs(fed))

\* calculate() was called on a ready instance with a list that is not the
\* stored window
C28_Witness ==
    /\ IsIndicator
    /\ call.op = "calculate"
    /\ is_ready
    /\ ~IsNone(value)
    /\ Len(ret) > Len(prices)

\* C29: is_ready is true exactly when at least N closes have been fed since
\* construction or the last reset(), and value is None exactly when is_ready
\* is false.
C29_ReadyIffFed ==
    IsIndicator =>
        /\ is_ready <=> Len(fed) >= params.period
        /\ IsNone(value) <=> ~is_ready

\* exactly N closes have been fed after a reset(): ready, with a value
C29_Witness ==
    /\ IsIndicator
    /\ restarted
    /\ Len(fed) = params.period
    /\ is_ready
    /\ ~IsNone(value)

-----------------------------------------------------------------------------
(* Claims about the memory of SMACrossover *)

\* C30: when two consecutive bars of one instrument are both evaluated, the
\* previous fast and slow averages used at the later bar equal the current
\* fast and slow averages used at the earlier bar.
C30_CrossContinuity ==
    [][(/\ IsSMA
        /\ call.op = "on_bar" /\ ~IsNone(cross)
        /\ call'.op = "on_bar" /\ ~IsNone(cross')
        /\ call'.symbol = call.symbol) =>
            /\ cross'[1].prev_fast_sma = cross[1].fast_sma
            /\ cross'[1].prev_slow_sma = cross[1].slow_sma]_vars

-----------------------------------------------------------------------------
(* Claims about intentions and fills *)

\* open-long, close-long, open-long, ..., starting with open-long
C31_Alternates(out) ==
    \A i \in DOMAIN out :
        out[i].intention = IF i % 2 = 1 THEN "OPEN_LONG" ELSE "CLOSE_LONG"

C31_DoubleOpen ==
    /\ IsSMA
    /\ \E i \in DOMAIN emitted[SymbolList[1]] :
        /\ i + 1 \in DOMAIN emitted[SymbolList[1]]
        /\ emitted[SymbolList[1]][i].intention = "OPEN_LONG"
        /\ emitted[SymbolList[1]][i + 1].intention = "OPEN_LONG"

\* C32: among the intentions of one instrument no two open-longs carry
\* timestamps of the same ISO year-week, whatever fills arrived between the
\* bars.
C32_OneOpenPerWeek ==
    IsWeekly =>
        \A s \in Symbols :
            \A i, j \in DOMAIN emitted[s] :
                (/\ i < j
                 /\ emitted[s][i].intention = "OPEN_LONG"
                 /\ emitted[s][j].intention = "OPEN_LONG") =>
                    get_week_key(emitted[s][i].t) # get_week_key(emitted[s][j].t)

\* a later Monday bar of a week whose open-long was already emitted, with a
\* price and no position held: nothing is emitted
C32_Witness ==
    /\ IsWeekly
    /\ call.op = "on_bar"
    /\ call.outcome = "decided"
    /\ weekday(clock[CallSymbol]) = 0
    /\ ~positions[CallSymbol]
    /\ signals = <<>>
    /\ \E i \in DOMAIN emitted[CallSymbol] :
        /\ emitted[CallSymbol][i].intention = "OPEN_LONG"
        /\ get_week_key(emitted[CallSymbol][i].t) = get_week_key(clock[CallSymbol])

\* C33: no instrument is positioned before any fill; a Buy fill makes its
\* instrument positioned, a Sell fill makes it not positioned (also when it
\* was not positioned before), a fill of any other side and every bar leave
\* the position state as it was; so an instrument is positioned exactly when
\* its most recent buy-or-sell fill was a Buy.
C33_PositionFollowsLastFill ==
    /\ [](IsWeekly /\ call.op = "__init__" => \A s \in Symbols : ~positions[s])
    /\ [][(IsWeekly /\ call'.op = "on_position_filled") =>
            /\ call'.outcome = "buy" => positions'[call'.symbol]
            /\ call'.outcome = "sell" => ~positions'[call'.symbol]
            /\ call'.outcome \notin {"buy", "sell"} => positions' = positions
            /\ \A s \in Symbols \ {call'.symbol} : positions'[s] = positions[s]]_vars
    /\ [][(IsWeekly /\ call'.op = "on_bar") => positions' = positions]_vars
    /\ [](IsWeekly => \A s \in Symbols : positions[s] \in BOOLEAN)

\* a fill that is neither a buy nor a sell, on an instrument that is positioned
C33_Witness ==
    /\ IsWeekly
    /\ call.op = "on_position_filled"
    /\ call.outcome = "other"
    /\ positions[CallSymbol]
    /\ emitted[CallSymbol] # <<>>

====
